---------------------------- MODULE Spec2Model ----------------------------
(***************************************************************************)
(* A model of dayspan's recurrence engine (src/src/Schedule.ts).           *)
(*                                                                         *)
(* A Day is an instant, counted here in MINUTES since 1970-01-01 00:00     *)
(* (the program counts milliseconds; every quantity of the program that is *)
(* a number of milliseconds is the same number divided by 60000 here, so   *)
(* that instants fit TLC's 32-bit integers).  Local time has no            *)
(* daylight-saving shifts in this model.                                   *)
(***************************************************************************)
EXTENDS Integers, Sequences, FiniteSets, TLC

VARIABLES schedule, pc, call, ret, day, days, iterated, out, tested, behindDays,
          cal, steps

vars == <<schedule, pc, call, ret, day, days, iterated, out, tested, behindDays,
          cal, steps>>

(***************************************************************************)
(* Bounds of the model.                                                    *)
(***************************************************************************)
\* input days are FirstDay .. FirstDay + MaxDay
MaxDay == 6
\* the `max` argument of nextDays/prevDays ranges over 0 .. MaxMax
MaxMax == 3
\* the lookAhead/lookBack argument ranges over 0 .. MaxLookup
MaxLookup == 5
\* iterations start from FirstDay .. FirstDay + MaxFrom
MaxFrom == 3
\* full-day durations range over 0 .. MaxDurationDays days
MaxDurationDays == 2
\* a calendar is called at most MaxSteps times
MaxSteps == 2

(***************************************************************************)
(* Optional values: null is the empty sequence, a value v is <<v>>.        *)
(***************************************************************************)
Null == <<>>

Some(v) == <<v>>

(***************************************************************************)
(* The Day capability (Day.ts, Constants.ts, Time.ts are not part of the   *)
(* sources at hand; they are modelled from the specification's section 6). *)
(***************************************************************************)
\* Constants.MILLIS_IN_DAY, in the model's unit (minutes)
MILLIS_IN_DAY == 1440

\* Constants.DAYS_IN_WEEK
DAYS_IN_WEEK == 7

\* Constants.WEEK_OF_MONTH_MINIMUM_WEEKDAY (Thursday)
WEEK_OF_MONTH_MINIMUM_WEEKDAY == 4

\* Constants.DURATION_TO_MILLIS[unit] || 0, in the model's unit (minutes)
DURATION_TO_MILLIS(unit) ==
    CASE unit = "minutes" -> 1
      [] unit = "hours"   -> 60
      [] unit = "days"    -> MILLIS_IN_DAY
      [] unit = "weeks"   -> MILLIS_IN_DAY * DAYS_IN_WEEK
      [] OTHER            -> 0

\* the number of whole days from 1970-01-01 to the day of instant t
DayNumber(t) == t \div MILLIS_IN_DAY

\* Day.start(): the first instant of t's day
StartOfDay(t) == DayNumber(t) * MILLIS_IN_DAY

\* the time of day of instant t (Time.toMilliseconds of the day's time)
TimeOfDay(t) == t % MILLIS_IN_DAY

\* Day.next() / Day.prev(): the same time of day, one day later / earlier
DayNext(t) == t + MILLIS_IN_DAY

DayPrev(t) == t - MILLIS_IN_DAY

\* Day.add(amount, unit)
DayAdd(t, amount, unit) == t + amount * DURATION_TO_MILLIS(unit)

\* Day.withTime(time)
WithTime(t, time) == StartOfDay(t) + time

\* The proleptic Gregorian calendar: the civil date of day number n, as
\* [year, month (0 = January), dayOfMonth (1 ..)].
CivilDate(y, m, d) ==
    [year |-> y + (IF m <= 2 THEN 1 ELSE 0), month |-> m - 1, dayOfMonth |-> d]

CivilOfMonth(era, yoe, doy, mp) ==
    CivilDate(yoe + era * 400, IF mp < 10 THEN mp + 3 ELSE mp - 9,
              doy - (153 * mp + 2) \div 5 + 1)

CivilOfDayOfYear(era, yoe, doy) == CivilOfMonth(era, yoe, doy, (5 * doy + 2) \div 153)

CivilOfYearOfEra(era, doe, yoe) ==
    CivilOfDayOfYear(era, yoe, doe - (365 * yoe + yoe \div 4 - yoe \div 100))

CivilOfDayOfEra(era, doe) ==
    CivilOfYearOfEra(era, doe,
        (doe - doe \div 1460 + doe \div 36524 - doe \div 146096) \div 365)

CivilOfEra(z) == CivilOfDayOfEra(z \div 146097, z - (z \div 146097) * 146097)

Civil(n) == CivilOfEra(n + 719468)

\* the day number of the civil date y-m-d (m = 1 .. 12)
DaysFromCivil(y, m, d) ==
    LET yy  == IF m <= 2 THEN y - 1 ELSE y
        era == yy \div 400
        yoe == yy - era * 400
        mp  == IF m > 2 THEN m - 3 ELSE m + 9
        doy == (153 * mp + 2) \div 5 + d - 1
        doe == yoe * 365 + yoe \div 4 - yoe \div 100 + doy
    IN  era * 146097 + doe - 719468

\* the component accessors of Day
year(t) == Civil(DayNumber(t)).year

month(t) == Civil(DayNumber(t)).month

dayOfMonth(t) == Civil(DayNumber(t)).dayOfMonth

\* 0 = Sunday; 1970-01-01 was a Thursday
dayOfWeek(t) == (DayNumber(t) + 4) % DAYS_IN_WEEK

dayOfYear(t) == DayNumber(t) - DaysFromCivil(year(t), 1, 1) + 1

\* the weekday of January 1st of year y
FirstOfYearDay(y) == (DaysFromCivil(y, 1, 1) + 4) % DAYS_IN_WEEK

\* the locale's week of the year: weeks start on Sunday, week 1 holds January 1st
week(t) ==
    LET n        == DayNumber(t)
        saturday == n + (DAYS_IN_WEEK - 1 - dayOfWeek(t))
        nextYear == DaysFromCivil(year(t) + 1, 1, 1)
    IN  IF saturday >= nextYear
        THEN 1
        ELSE (dayOfYear(t) + FirstOfYearDay(year(t)) - 1) \div DAYS_IN_WEEK + 1

weekOfYear(t) ==
    IF FirstOfYearDay(year(t)) > WEEK_OF_MONTH_MINIMUM_WEEKDAY
    THEN week(t) - 1
    ELSE week(t)

weekspanOfYear(t) == (dayOfYear(t) - 1) \div DAYS_IN_WEEK

fullWeekOfYear(t) ==
    IF FirstOfYearDay(year(t)) = 0 THEN week(t) ELSE week(t) - 1

weekOfMonth(t) ==
    (dayOfMonth(t) - dayOfWeek(t) + WEEK_OF_MONTH_MINIMUM_WEEKDAY + 5) \div DAYS_IN_WEEK

weekspanOfMonth(t) == (dayOfMonth(t) - 1) \div DAYS_IN_WEEK

fullWeekOfMonth(t) ==
    (dayOfMonth(t) - dayOfWeek(t) - 1 + DAYS_IN_WEEK) \div DAYS_IN_WEEK

\* Day.dayIdentifier: the key of the exclusion set
dayIdentifier(t) == year(t) * 10000 + (month(t) + 1) * 100 + dayOfMonth(t)

\* Day.isSameOrAfter / Day.isBefore compare instants
isSameOrAfter(a, b) == a >= b

isBefore(a, b) == a < b

(***************************************************************************)
(* FrequencyValue and the FrequencyCheck compiled from it (Parse.ts is not *)
(* part of the sources at hand; section 3 of the specification).           *)
(***************************************************************************)
Always == [kind |-> "Always"]

Every(every, offset) == [kind |-> "Every", every |-> every, offset |-> offset]

OneOf(values) == [kind |-> "OneOf", values |-> values]

\* the predicate of a FrequencyCheck applied to the value v of a component
FrequencyCheck(fv, v) ==
    CASE fv.kind = "Always" -> TRUE
      [] fv.kind = "Every"  -> (v - fv.offset) % fv.every = 0
      [] fv.kind = "OneOf"  -> \E i \in 1..Len(fv.values) : fv.values[i] = v


(***************************************************************************)
(* Schedule (src/src/Schedule.ts).  A schedule is a record of the fields   *)
(* of the class; a DaySpan is a record [start, end] of two instants.       *)
(***************************************************************************)
\* get lastTime(): the last entry of times, undefined when there is none
lastTime(s) == IF Len(s.times) > 0 THEN Some(s.times[Len(s.times)]) ELSE Null

\* Math.ceil(a / b) for b > 0
Ceil(a, b) == -((-a) \div b)

Max(a, b) == IF a >= b THEN a ELSE b

\* updateDurationInDays without the day subtracted from the numerator
updateDurationInDaysOff(s) ==
    LET start    == IF lastTime(s) # Null THEN lastTime(s)[1] ELSE 0
        duration == s.duration * DURATION_TO_MILLIS(s.durationUnit)
    IN  [s EXCEPT !.durationInDays = Max(0, Ceil(start + duration, MILLIS_IN_DAY))]

\* updateDurationInDays with Math.floor in place of Math.ceil
updateDurationInDaysFloor(s) ==
    LET start    == IF lastTime(s) # Null THEN lastTime(s)[1] ELSE 0
        duration == s.duration * DURATION_TO_MILLIS(s.durationUnit)
    IN  [s EXCEPT !.durationInDays =
            Max(0, (start + duration - MILLIS_IN_DAY) \div MILLIS_IN_DAY)]

\* updateDurationInDays(): durationInDays from the last time of day and the duration
updateDurationInDays(s) ==
    LET start    == IF lastTime(s) # Null THEN lastTime(s)[1] ELSE 0
        duration == s.duration * DURATION_TO_MILLIS(s.durationUnit)
        exclude  == MILLIS_IN_DAY
        dayLen   == MILLIS_IN_DAY
    IN  [s EXCEPT !.durationInDays = Max(0, Ceil(start + duration - exclude, dayLen))]

\* matchesSpan with `end` taken as the last instant allowed
matchesSpanClosedEnd(s, t) ==
    /\ (s.start = Null \/ isSameOrAfter(t, s.start[1]))
    /\ (s.end = Null \/ ~isBefore(s.end[1], t))

\* matchesSpan(day)
matchesSpan(s, t) ==
    /\ (s.start = Null \/ isSameOrAfter(t, s.start[1]))
    /\ (s.end = Null \/ isBefore(t, s.end[1]))

isExcluded(s, t) == dayIdentifier(t) \in s.exclude

isIncluded(s, t) == dayIdentifier(t) \notin s.exclude

matchesDay(s, t) ==
    /\ isIncluded(s, t)
    /\ matchesSpan(s, t)
    /\ FrequencyCheck(s.dayOfWeek, dayOfWeek(t))
    /\ FrequencyCheck(s.dayOfMonth, dayOfMonth(t))
    /\ FrequencyCheck(s.dayOfYear, dayOfYear(t))
    /\ FrequencyCheck(s.year, year(t))
    /\ FrequencyCheck(s.month, month(t))
    /\ FrequencyCheck(s.week, week(t))
    /\ FrequencyCheck(s.weekOfYear, weekOfYear(t))
    /\ FrequencyCheck(s.weekspanOfYear, weekspanOfYear(t))
    /\ FrequencyCheck(s.fullWeekOfYear, fullWeekOfYear(t))
    /\ FrequencyCheck(s.weekOfMonth, weekOfMonth(t))
    /\ FrequencyCheck(s.weekspanOfMonth, weekspanOfMonth(t))
    /\ FrequencyCheck(s.fullWeekOfMonth, fullWeekOfMonth(t))

\* the loop of findStartingDay without its step back
findStartingDayLoopStuck(s, d, behind) ==
    IF behind >= 0 /\ matchesDay(s, d) THEN Some(d) ELSE Null

\* the loop of findStartingDay, entered with `d` and `behind`
RECURSIVE findStartingDayLoop(_, _, _)
findStartingDayLoop(s, d, behind) ==
    IF behind >= 0
    THEN IF matchesDay(s, d)
         THEN Some(d)
         ELSE findStartingDayLoop(s, DayPrev(d), behind - 1)
    ELSE Null

\* findStartingDay searching one day less
findStartingDayShort(s, t) == findStartingDayLoop(s, t, s.durationInDays - 1)

\* findStartingDay giving up on an excluded day
findStartingDayUnlessExcluded(s, t) ==
    IF isExcluded(s, t) THEN Null ELSE findStartingDayLoop(s, t, s.durationInDays)

\* findStartingDay(day): behind = durationInDays, then the loop
findStartingDay(s, t) == findStartingDayLoop(s, t, s.durationInDays)

coversDay(s, t) == findStartingDay(s, t) # Null

isFullDay(s) == Len(s.times) = 0

\* getFullSpan without day.start()
getFullSpanNoStart(s, t) ==
    [start |-> t, end |-> DayAdd(t, s.duration, s.durationUnit)]

\* getFullSpan(day)
getFullSpan(s, t) ==
    LET start == StartOfDay(t)
        end   == DayAdd(start, s.duration, s.durationUnit)
    IN  [start |-> start, end |-> end]

getTimeSpan(s, t, time) ==
    LET start == WithTime(t, time)
        end   == DayAdd(start, s.duration, s.durationUnit)
    IN  [start |-> start, end |-> end]

getSpansOn(s, t, check) ==
    IF check /\ ~matchesDay(s, t)
    THEN <<>>
    ELSE IF isFullDay(s)
         THEN <<getFullSpan(s, t)>>
         ELSE [i \in 1..Len(s.times) |-> getTimeSpan(s, t, s.times[i])]

(***************************************************************************)
(* The DaySpan capability used by the schedule (DaySpan.ts is not part of  *)
(* the sources at hand; modelled from the specification's sections 3, 6).  *)
(* A span is a record [start, end] of two instants.                        *)
(***************************************************************************)
sameDay(a, b) == DayNumber(a) = DayNumber(b)

\* DaySpan.contains(day): the instant lies between start and end
SpanContains(span, t) == t >= span.start /\ t <= span.end

\* DaySpan.matchesDay(day): the span holds the instant or touches its day
SpanMatchesDay(span, t) ==
    SpanContains(span, t) \/ sameDay(t, span.start) \/ sameDay(t, span.end)

\* the loop of getSpansOver over the times, anchored at the starting day
getSpansOverTimes(s, start) ==
    LET touches(span) == SpanMatchesDay(span, start)
    IN  SelectSeq([i \in 1..Len(s.times) |-> getTimeSpan(s, start, s.times[i])],
                  touches)

\* getSpansOver after `start` is found
getSpansOverFrom(s, start) ==
    IF start = Null
    THEN <<>>
    ELSE IF isFullDay(s)
         THEN <<getFullSpan(s, start[1])>>
         ELSE getSpansOverTimes(s, start[1])

getSpansOver(s, t) == getSpansOverFrom(s, findStartingDay(s, t))

\* getSpanOver after `start` is found
getSpanOverFrom(s, start) ==
    IF start # Null THEN Some(getFullSpan(s, start[1])) ELSE Null

\* getSpanOver anchored at the day asked for
getSpanOverOfDay(s, t) == Some(getFullSpan(s, t))

getSpanOver(s, t) == getSpanOverFrom(s, findStartingDay(s, t))

(***************************************************************************)
(* The schedules and days the model draws its inputs from.                 *)
(***************************************************************************)
\* Sunday 2017-12-31: the year, the month and the week change inside the window
FirstDay == DaysFromCivil(2017, 12, 31)

\* the instant at which day FirstDay + i begins
DayAt(i) == (FirstDay + i) * MILLIS_IN_DAY

Days == {DayAt(i) : i \in 0..MaxDay}

\* times of day an input Day may carry (00:00 and 10:00)
InputTimes == {0, 600}

NoFrequency ==
    [dayOfWeek |-> Always, dayOfMonth |-> Always, dayOfYear |-> Always,
     year |-> Always, month |-> Always, week |-> Always, weekOfYear |-> Always,
     weekspanOfYear |-> Always, fullWeekOfYear |-> Always, weekOfMonth |-> Always,
     weekspanOfMonth |-> Always, fullWeekOfMonth |-> Always]

Frequencies ==
    { NoFrequency,
      [NoFrequency EXCEPT !.dayOfWeek = OneOf(<<1, 3, 5>>)],
      [NoFrequency EXCEPT !.dayOfWeek = OneOf(<<1>>)],
      [NoFrequency EXCEPT !.dayOfMonth = Every(2, 1), !.month = OneOf(<<0>>),
                          !.dayOfYear = Every(1, 0)],
      [NoFrequency EXCEPT !.year = OneOf(<<1999>>)],
      [NoFrequency EXCEPT !.week = OneOf(<<1>>), !.weekOfYear = OneOf(<<1, 2>>),
                          !.weekspanOfYear = OneOf(<<0, 52>>),
                          !.fullWeekOfYear = OneOf(<<0, 1>>),
                          !.weekOfMonth = OneOf(<<1, 5>>),
                          !.weekspanOfMonth = OneOf(<<0, 4>>),
                          !.fullWeekOfMonth = OneOf(<<0, 1, 5>>)] }

Bounds == {Null, Some(DayAt(2))} \X {Null, Some(DayAt(5))}

Exclusions == { {}, {DayAt(1)}, {DayAt(2), DayAt(4)} }

TimesOfDay == { <<>>, <<540>>, <<60, 1380>> }

Durations ==
    {<<n, "days">> : n \in 0..MaxDurationDays}
        \cup {<<120, "minutes">>, <<2, "hours">>, <<36, "hours">>}

\* Parse.schedule: the schedule built from an input
NewSchedule(freq, bounds, excl, times, dur) ==
    updateDurationInDays(
        freq @@ [start |-> bounds[1], end |-> bounds[2],
                 duration |-> dur[1], durationUnit |-> dur[2],
                 times |-> times, durationInDays |-> 0,
                 exclude |-> {dayIdentifier(e) : e \in excl}])

Schedules ==
    { NewSchedule(f, b, e, t, d) :
        f \in Frequencies, b \in Bounds, e \in Exclusions,
        t \in TimesOfDay, d \in Durations }

\* the schedules of the iteration runs: full-day, of the default duration
\* (iterateDays reads neither times nor duration)
IterSchedules ==
    { NewSchedule(f, b, e, <<>>, <<1, "days">>) :
        f \in Frequencies, b \in Bounds, e \in Exclusions }

\* the days an iteration starts from
IterDays == {DayAt(i) : i \in 0..MaxFrom}

(***************************************************************************)
(* The queries of a schedule, each one action: call holds the operation    *)
(* and its arguments, ret what it returned.  A caller takes the result     *)
(* (Return) before the next call.                                          *)
(***************************************************************************)
NoLoop == UNCHANGED <<schedule, day, days, iterated, out, tested, behindDays, cal, steps>>

MatchesDay(t) ==
    /\ pc = "idle"
    /\ call' = [op |-> "matchesDay", day |-> t]
    /\ ret' = matchesDay(schedule, t)
    /\ pc' = "done"
    /\ NoLoop

CoversDay(t) ==
    /\ pc = "idle"
    /\ call' = [op |-> "coversDay", day |-> t]
    /\ ret' = coversDay(schedule, t)
    /\ pc' = "done"
    /\ NoLoop

FindStartingDay(t) ==
    /\ pc = "idle"
    /\ call' = [op |-> "findStartingDay", day |-> t]
    /\ ret' = findStartingDay(schedule, t)
    /\ pc' = "done"
    /\ NoLoop

GetSpansOn(t, check) ==
    /\ pc = "idle"
    /\ call' = [op |-> "getSpansOn", day |-> t, check |-> check]
    /\ ret' = getSpansOn(schedule, t, check)
    /\ pc' = "done"
    /\ NoLoop

GetSpansOver(t) ==
    /\ pc = "idle"
    /\ call' = [op |-> "getSpansOver", day |-> t]
    /\ ret' = getSpansOver(schedule, t)
    /\ pc' = "done"
    /\ NoLoop

(***************************************************************************)
(* findStartingDay, one pass of its loop at a time: FindStartingDayEnter   *)
(* is the call (behind = durationInDays), FindStartingDayPass one test of  *)
(* the while condition followed by the loop's body or by `return null`.    *)
(* `out` lists the days given to matchesDay, `tested` counts them.         *)
(***************************************************************************)
FindStartingDayEnter(t) ==
    /\ pc = "idle"
    /\ call' = [op |-> "findStartingDayLoop", day |-> t]
    /\ ret' = Null
    /\ pc' = "findStartingDay"
    /\ day' = Some(t)
    /\ behindDays' = schedule.durationInDays
    /\ out' = <<>>
    /\ tested' = 0
    /\ UNCHANGED <<schedule, days, iterated, cal, steps>>

\* while (behind >= 0) testing one value more
StillBehindOneMore(b) == b >= -1

\* while (behind >= 0)
StillBehind(b) == b >= 0

FindStartingDayPass ==
    /\ pc = "findStartingDay"
    /\ IF StillBehind(behindDays)
       THEN /\ tested' = tested + 1
            /\ out' = Append(out, day[1])
            /\ IF matchesDay(schedule, day[1])
               THEN /\ ret' = day
                    /\ pc' = "done"
                    /\ UNCHANGED <<day, behindDays>>
               ELSE /\ day' = Some(DayPrev(day[1]))
                    /\ behindDays' = behindDays - 1
                    /\ UNCHANGED <<ret, pc>>
       ELSE /\ ret' = Null
            /\ pc' = "done"
            /\ UNCHANGED <<day, behindDays, out, tested>>
    /\ UNCHANGED <<schedule, call, days, iterated, cal, steps>>

(***************************************************************************)
(* iterateDays and its four callers.  The caller's action enters the loop  *)
(* (pc = "iterateDays"); IterateDays is one pass of the loop body, or the  *)
(* loop's exit.  `out` lists the days handed to onDay, `tested` counts the *)
(* days given to matchesDay.  The callback of nextDay/prevDay ("set")      *)
(* stores the day and returns false; the callback of nextDays/prevDays     *)
(* ("push") appends the day and returns the list's new length.             *)
(***************************************************************************)
IterOps == {"nextDay", "nextDays", "prevDay", "prevDays"}

EnterLoop(t) ==
    /\ pc' = "iterateDays"
    /\ day' = Some(t)
    /\ days' = 0
    /\ iterated' = 0
    /\ out' = <<>>
    /\ tested' = 0
    /\ UNCHANGED <<schedule, behindDays, cal, steps>>

NextDay(t, includeDay, lookAhead) ==
    /\ pc = "idle"
    /\ call' = [op |-> "nextDay", day |-> t, max |-> 1, next |-> TRUE,
                onDay |-> "set", includeDay |-> includeDay, lookup |-> lookAhead]
    /\ ret' = Null
    /\ EnterLoop(t)

NextDays(t, max, includeDay, lookAhead) ==
    /\ pc = "idle"
    /\ call' = [op |-> "nextDays", day |-> t, max |-> max, next |-> TRUE,
                onDay |-> "push", includeDay |-> includeDay, lookup |-> lookAhead]
    /\ ret' = <<>>
    /\ EnterLoop(t)

PrevDay(t, includeDay, lookBack) ==
    /\ pc = "idle"
    /\ call' = [op |-> "prevDay", day |-> t, max |-> 1, next |-> FALSE,
                onDay |-> "set", includeDay |-> includeDay, lookup |-> lookBack]
    /\ ret' = Null
    /\ EnterLoop(t)

PrevDays(t, max, includeDay, lookBack) ==
    /\ pc = "idle"
    /\ call' = [op |-> "prevDays", day |-> t, max |-> max, next |-> FALSE,
                onDay |-> "push", includeDay |-> includeDay, lookup |-> lookBack]
    /\ ret' = <<>>
    /\ EnterLoop(t)

\* a loop that runs one pass more
LoopRunsOneMore(dys, lookup) == dys <= lookup

\* the loop's condition: for (let days = 0; days < lookup; days++)
LoopRuns(dys, lookup) == dys < lookup

\* a pass that always moves
MovesAlways(includeDay, dys) == TRUE

\* if (!includeDay || days > 0): the pass moves to the neighbouring day
Moves(includeDay, dys) == ~includeDay \/ dys > 0

\* day = next ? day.next() : day.prev()
Moved(t, next) == IF next THEN DayNext(t) ELSE DayPrev(t)

\* what onDay(day) does to the caller's result, and whether it returns false
OnDayResult(onDay, result, t) ==
    IF onDay = "set" THEN Some(t) ELSE Append(result, t)

OnDayReturnsFalse(onDay) == onDay = "set"

\* if (++iterated >= max) break, with the incremented count
MaxReached(count, max) == count >= max

IterateDays ==
    /\ pc = "iterateDays"
    /\ IF LoopRuns(days, call.lookup)
       THEN LET t == IF Moves(call.includeDay, days)
                     THEN Moved(day[1], call.next)
                     ELSE day[1]
            IN  /\ day' = Some(t)
                /\ tested' = tested + 1
                /\ IF matchesDay(schedule, t)
                   THEN /\ out' = Append(out, t)
                        /\ ret' = OnDayResult(call.onDay, ret, t)
                        /\ IF OnDayReturnsFalse(call.onDay)
                           THEN /\ pc' = "done"
                                /\ UNCHANGED <<iterated, days>>
                           ELSE /\ iterated' = iterated + 1
                                /\ IF MaxReached(iterated + 1, call.max)
                                   THEN pc' = "done" /\ UNCHANGED days
                                   ELSE pc' = pc /\ days' = days + 1
                   ELSE /\ days' = days + 1
                        /\ UNCHANGED <<pc, out, ret, iterated>>
       ELSE /\ pc' = "done"
            /\ UNCHANGED <<day, days, iterated, out, ret, tested>>
    /\ UNCHANGED <<schedule, call, behindDays, cal, steps>>

Return ==
    /\ pc = "done"
    /\ pc' = "idle"
    /\ call' = [op |-> "none"]
    /\ ret' = Null
    /\ day' = Null
    /\ days' = 0
    /\ iterated' = 0
    /\ out' = <<>>
    /\ tested' = 0
    /\ behindDays' = 0
    /\ UNCHANGED <<schedule, cal, steps>>

InitCall ==
    /\ pc = "idle"
    /\ call = [op |-> "none"]
    /\ ret = Null
    /\ day = Null
    /\ days = 0
    /\ iterated = 0
    /\ out = <<>>
    /\ tested = 0
    /\ behindDays = 0

\* no calendar is built while the schedule's queries run
NoCalendar == cal = Null /\ steps = 0

Init == schedule \in Schedules /\ InitCall /\ NoCalendar

\* a query is called when no other is running
Next ==
    \/ pc = "idle" /\ \E t \in Days, m \in InputTimes : MatchesDay(t + m)
    \/ pc = "idle" /\ \E t \in Days : CoversDay(t)
    \/ pc = "idle" /\ \E t \in Days : FindStartingDay(t)
    \/ pc = "idle" /\ \E t \in Days, m \in InputTimes, check \in BOOLEAN :
                        GetSpansOn(t + m, check)
    \/ pc = "idle" /\ \E t \in Days : GetSpansOver(t)
    \/ pc = "idle" /\ \E t \in Days : FindStartingDayEnter(t)
    \/ FindStartingDayPass
    \/ Return

Spec == Init /\ [][Next]_vars

\* the iteration runs
InitIter == schedule \in IterSchedules /\ InitCall /\ NoCalendar

NextIter ==
    \/ pc = "idle" /\ \E t \in IterDays, inc \in BOOLEAN, look \in 0..MaxLookup :
                        NextDay(t, inc, look)
    \/ pc = "idle" /\ \E t \in IterDays, max \in 0..MaxMax, inc \in BOOLEAN,
                           look \in 0..MaxLookup : NextDays(t, max, inc, look)
    \/ pc = "idle" /\ \E t \in IterDays, inc \in BOOLEAN, look \in 0..MaxLookup :
                        PrevDay(t, inc, look)
    \/ pc = "idle" /\ \E t \in IterDays, max \in 0..MaxMax, inc \in BOOLEAN,
                           look \in 0..MaxLookup : PrevDays(t, max, inc, look)
    \/ IterateDays
    \/ Return

SpecIter == InitIter /\ [][NextIter]_vars

(***************************************************************************)
(* The calendar grid (src/src/Calendar.ts).                                *)
(*                                                                         *)
(* More of the Day and DaySpan capability, modelled from the               *)
(* specification's section 6 as the part above.  The last instant of a day *)
(* is one unit of time before the next day begins.                         *)
(***************************************************************************)
\* Day.end()
EndOfDay(t) == StartOfDay(t) + MILLIS_IN_DAY - 1

relativeDays(t, n) == t + n * MILLIS_IN_DAY

relativeWeeks(t, n) == t + n * DAYS_IN_WEEK * MILLIS_IN_DAY

\* weeks begin on Sunday
startOfWeek(t) == relativeDays(StartOfDay(t), -dayOfWeek(t))

endOfWeek(t) == EndOfDay(relativeDays(startOfWeek(t), DAYS_IN_WEEK - 1))

\* the number of days of month m (0 = January) of year y
DaysInMonth(y, m) ==
    (IF m = 11 THEN DaysFromCivil(y + 1, 1, 1) ELSE DaysFromCivil(y, m + 2, 1))
        - DaysFromCivil(y, m + 1, 1)

FirstOfMonth(date) == DaysFromCivil(date.year, date.month + 1, 1) * MILLIS_IN_DAY

LastOfMonth(date) ==
    EndOfDay(relativeDays(FirstOfMonth(date), DaysInMonth(date.year, date.month) - 1))

startOfMonth(t) == FirstOfMonth(Civil(DayNumber(t)))

endOfMonth(t) == LastOfMonth(Civil(DayNumber(t)))

\* Day.relativeMonths(n): the same day of the month n months away, or the
\* month's last day when the month is shorter; the time of day is kept
Min(a, b) == IF a <= b THEN a ELSE b

\* day d, or the last day, of month m (0 = January) of year y, at `time`
DayInMonth(y, m, d, time) ==
    DaysFromCivil(y, m + 1, Min(d, DaysInMonth(y, m))) * MILLIS_IN_DAY + time

\* the day of civil date `date`, `months` months after year 0, at `time`
MonthsFromYearZero(months, date, time) ==
    DayInMonth(months \div 12, months % 12, date.dayOfMonth, time)

MonthsAway(date, n, time) ==
    MonthsFromYearZero(date.year * 12 + date.month + n, date, time)

relativeMonths(t, n) == MonthsAway(Civil(DayNumber(t)), n, TimeOfDay(t))

sameWeek(a, b) == startOfWeek(a) = startOfWeek(b)

SameMonthOf(x, y) == x.year = y.year /\ x.month = y.month

sameMonth(a, b) == SameMonthOf(Civil(DayNumber(a)), Civil(DayNumber(b)))

sameYear(a, b) == year(a) = year(b)

\* Day.daysBetween(day, Op.DOWN, false): whole days from `day` to t, signed
daysBetweenDown(t, other) == (t - other) \div MILLIS_IN_DAY

DaySpan(start, end) == [start |-> start, end |-> end]

\* DaySpan.point(day)
SpanPoint(t) == DaySpan(t, t)

\* DaySpan.isPoint
isPoint(span) == span.start = span.end

\* DaySpan.days(Op.UP): the days of the span, a started day counted whole
SpanDays(span) ==
    LET diff == span.end - span.start
    IN  Ceil(IF diff >= 0 THEN diff ELSE -diff, MILLIS_IN_DAY)

SpanMatchesWeek(span, t) ==
    SpanContains(span, t) \/ sameWeek(t, span.start) \/ sameWeek(t, span.end)

SpanMatchesMonth(span, t) ==
    SpanContains(span, t) \/ sameMonth(t, span.start) \/ sameMonth(t, span.end)

SpanMatchesYear(span, t) ==
    SpanContains(span, t) \/ sameYear(t, span.start) \/ sameYear(t, span.end)

\* Constants.MAX_EVENTS_PER_DAY
MAX_EVENTS_PER_DAY == 24

\* fn.coalesce(a, b): a unless it is undefined
coalesce(a, b) == IF a # Null THEN a[1] ELSE b

(***************************************************************************)
(* Objects.  A Schedule object and a payload object are named by a string; *)
(* a registry entry (CalendarSchedule) is the record of its own name and   *)
(* of the names of its schedule and payload, so two entries are equal      *)
(* exactly when they are the same object.  An identifier handed to         *)
(* findSchedule is a reference [kind, ref] to a pair, a schedule or a      *)
(* payload.  A cell carries `ref`, the name of the CalendarDay object.     *)
(***************************************************************************)
\* the Schedule objects the registered pairs refer to
ScheduleObjects ==
    [S1 |-> NewSchedule([NoFrequency EXCEPT !.dayOfWeek = OneOf(<<1>>)],
                        <<Null, Null>>, {}, <<>>, <<2, "days">>),
     S2 |-> NewSchedule([NoFrequency EXCEPT !.dayOfWeek = OneOf(<<1, 3, 5>>)],
                        <<Null, Null>>, {}, <<60, 1380>>, <<2, "hours">>)]

CalendarSchedule(name, s, e) == [pair |-> name, schedule |-> s, event |-> e]

\* Parse.calendarSchedule(input): an input holding a Schedule is the pair itself
calendarSchedule(input) == input

PairRef(entry) == [kind |-> "pair", ref |-> entry.pair]

ScheduleRef(s) == [kind |-> "schedule", ref |-> s]

EventRef(e) == [kind |-> "event", ref |-> e]

\* new CalendarDay(date), the object named ref
CalendarDay(ref, date) ==
    [ref |-> ref, date |-> date,
     currentDay |-> FALSE, currentWeek |-> FALSE, currentMonth |-> FALSE,
     currentYear |-> FALSE, currentOffset |-> 0,
     selectedDay |-> FALSE, selectedWeek |-> FALSE, selectedMonth |-> FALSE,
     selectedYear |-> FALSE, inCalendar |-> FALSE, events |-> <<>>]

updateCurrent(d, current) ==
    [d EXCEPT !.currentDay = sameDay(d.date, current),
              !.currentWeek = sameWeek(d.date, current),
              !.currentMonth = sameMonth(d.date, current),
              !.currentYear = sameYear(d.date, current),
              !.currentOffset = daysBetweenDown(d.date, current)]

updateSelected(d, selected) ==
    [d EXCEPT !.selectedDay = SpanMatchesDay(selected, d.date),
              !.selectedWeek = SpanMatchesWeek(selected, d.date),
              !.selectedMonth = SpanMatchesMonth(selected, d.date),
              !.selectedYear = SpanMatchesYear(selected, d.date)]

clearSelected(d) ==
    [d EXCEPT !.selectedDay = FALSE, !.selectedWeek = FALSE,
              !.selectedMonth = FALSE, !.selectedYear = FALSE]

\* new CalendarEvent(id, event, schedule, time, actualDay)
CalendarEvent(id, event, s, time, actualDay) ==
    [id |-> id, event |-> event, schedule |-> s, time |-> time,
     fullDay |-> isFullDay(ScheduleObjects[s]),
     starting |-> isPoint(time) \/ sameDay(time.start, actualDay),
     ending |-> isPoint(time) \/ sameDay(time.end - 1, actualDay)]

\* CalendarEvent.scheduleId
scheduleId(e) == e.id \div MAX_EVENTS_PER_DAY

(***************************************************************************)
(* The Calendar.  A calendar is the record of its fields; moveStart and    *)
(* moveEnd are named by `mover`, the static factory that wired them.  Each *)
(* method is the operator from the calendar before the call to the         *)
(* calendar after it.                                                      *)
(***************************************************************************)
\* moveStart(day, amount) of the calendars built by days, weeks and months
moveStart(mover, t, amount) ==
    CASE mover = "days"   -> relativeDays(t, amount)
      [] mover = "weeks"  -> relativeWeeks(t, amount)
      [] mover = "months" -> relativeMonths(t, amount)

\* moveEnd(day, amount)
moveEnd(mover, t, amount) ==
    CASE mover = "days"   -> relativeDays(t, amount)
      [] mover = "weeks"  -> relativeWeeks(t, amount)
      [] mover = "months" -> endOfMonth(relativeMonths(startOfMonth(t), amount))

\* the loop over the spans giving every event the entry's first id
eventsOfTimesOneId(entry, eventId, times, d) ==
    [timeIndex \in 1..Len(times) |->
        CalendarEvent(eventId, entry.event, entry.schedule, times[timeIndex], d)]

\* the loop of eventsForDay over the spans of one entry
eventsOfTimes(entry, eventId, times, d) ==
    [timeIndex \in 1..Len(times) |->
        CalendarEvent(eventId + (timeIndex - 1), entry.event, entry.schedule,
                      times[timeIndex], d)]

\* if (over) events.push(...)
eventOfSpan(entry, eventId, over, d) ==
    IF over # Null
    THEN <<CalendarEvent(eventId, entry.event, entry.schedule, over[1], d)>>
    ELSE <<>>

\* the events of entry, whose Schedule is s, in eventsForDay
eventsOfSchedule(entry, s, eventId, d, getTimes, covers) ==
    IF (covers /\ coversDay(s, d)) \/ (~covers /\ matchesDay(s, d))
    THEN IF getTimes
         THEN eventsOfTimes(entry, eventId,
                            IF covers THEN getSpansOver(s, d)
                                      ELSE getSpansOn(s, d, FALSE), d)
         ELSE eventOfSpan(entry, eventId, getSpanOver(s, d), d)
    ELSE <<>>

\* the events of one registry entry in eventsForDay (entryIndex from 0)
eventsForEntry(c, entryIndex, d, getTimes, covers) ==
    eventsOfSchedule(c.schedules[entryIndex + 1],
                     ScheduleObjects[c.schedules[entryIndex + 1].schedule],
                     entryIndex * MAX_EVENTS_PER_DAY, d, getTimes, covers)

\* the loop of eventsForDay over the entries from entryIndex on
RECURSIVE eventsFrom(_, _, _, _, _)
eventsFrom(c, entryIndex, d, getTimes, covers) ==
    IF entryIndex < Len(c.schedules)
    THEN eventsForEntry(c, entryIndex, d, getTimes, covers)
            \o eventsFrom(c, entryIndex + 1, d, getTimes, covers)
    ELSE <<>>

eventsForDay(c, d, getTimes, covers) == eventsFrom(c, 0, d, getTimes, covers)

resetFilled(c) ==
    [c EXCEPT !.filled =
        DaySpan(IF c.fill THEN startOfWeek(c.span.start) ELSE c.span.start,
                IF c.fill THEN endOfWeek(c.span.end) ELSE c.span.end)]

\* resetDays with every cell made anew
keepsCellNever(cells, i, current) == FALSE

\* resetDays keeping every cell it finds, whatever its date
keepsCellOfAnyDate(cells, i, current) == i <= Len(cells)

\* resetDays keeps days[i]: !(!day || !day.sameDay(current)), i from 1
keepsCell(cells, i, current) ==
    i <= Len(cells) /\ sameDay(cells[i].date, current)

\* the name of the object made by new CalendarDay at position i: no cell of
\* the calendar has it (a cell's name is its position and a generation, 0
\* or 1; a kept cell keeps its position)
newRef(cells, i) ==
    IF i <= Len(cells) THEN <<i, 1 - cells[i].ref[2]>> ELSE <<i, 0>>

\* the number of cells without the minimum size
totalDaysOfSpan(c) == SpanDays(c.filled)

\* total = Math.max(minimumSize, filled.days(Op.UP))
totalDays(c) == Max(c.minimumSize, SpanDays(c.filled))

resetDays(c) ==
    LET f     == resetFilled(c)
        total == totalDays(f)
        cell(i) ==
            LET current == relativeDays(f.filled.start, i - 1)
                d == IF keepsCell(c.days, i, current)
                     THEN c.days[i]
                     ELSE CalendarDay(newRef(c.days, i), current)
            IN  [d EXCEPT !.inCalendar = SpanContains(f.span, d.date)]
    IN  [f EXCEPT !.days = [i \in 1..total |-> cell(i)]]

refreshCurrent(c, today) ==
    [c EXCEPT !.days = [i \in 1..Len(c.days) |-> updateCurrent(c.days[i], today)]]

refreshSelection(c) ==
    [c EXCEPT !.days =
        [i \in 1..Len(c.days) |->
            IF c.selection # Null
            THEN updateSelected(c.days[i], c.selection[1])
            ELSE clearSelected(c.days[i])]]

\* if (d.inCalendar || this.eventsOutside)
rewritesEvents(c, d) == d.inCalendar \/ c.eventsOutside

refreshEvents(c) ==
    [c EXCEPT !.days =
        [i \in 1..Len(c.days) |->
            IF rewritesEvents(c, c.days[i])
            THEN [c.days[i] EXCEPT !.events =
                     eventsForDay(c, c.days[i].date, c.listTimes, c.repeatCovers)]
            ELSE c.days[i]]]

\* the refresh of the events always put off
refreshEventsDelayed(c, delayRefresh) == c

\* if (!delayRefresh) this.refreshEvents()
refreshEventsUnless(c, delayRefresh) == IF ~delayRefresh THEN refreshEvents(c) ELSE c

\* refresh without its refreshSelection stage
refreshWithoutSelection(c, today) ==
    refreshEvents(
        refreshCurrent(
            resetDays([c EXCEPT !.length = SpanDays(c.span)]), today))

refresh(c, today) ==
    refreshEvents(
        refreshSelection(
            refreshCurrent(
                resetDays([c EXCEPT !.length = SpanDays(c.span)]), today)))

\* the first entry equal by reference to the identifier, or null
RECURSIVE findScheduleFrom(_, _, _)
findScheduleFrom(c, input, i) ==
    IF i > Len(c.schedules)
    THEN Null
    ELSE LET entry == c.schedules[i]
         IN  IF \/ input = PairRef(entry)
                \/ input = ScheduleRef(entry.schedule)
                \/ input = EventRef(entry.event)
             THEN Some(entry)
             ELSE findScheduleFrom(c, input, i + 1)

\* findSchedule returning the last entry that matches
findScheduleLast(c, input) ==
    LET found == {i \in 1..Len(c.schedules) :
                     \/ input = PairRef(c.schedules[i])
                     \/ input = ScheduleRef(c.schedules[i].schedule)
                     \/ input = EventRef(c.schedules[i].event)}
    IN  IF found = {}
        THEN Null
        ELSE Some(c.schedules[CHOOSE i \in found : \A j \in found : j <= i])

findSchedule(c, input) == findScheduleFrom(c, input, 1)

\* Array.indexOf(found), from 1
indexOf(seq, found) ==
    CHOOSE i \in 1..Len(seq) : seq[i] = found /\ \A j \in 1..(i - 1) : seq[j] # found

\* Array.splice(i, 1), i from 1
spliceOne(seq, i) == [j \in 1..(Len(seq) - 1) |-> IF j < i THEN seq[j] ELSE seq[j + 1]]

\* removeSchedule after `found` is looked up
removeFound(c, found, delayRefresh) ==
    IF found # Null
    THEN refreshEventsUnless(
             [c EXCEPT !.schedules =
                 spliceOne(c.schedules, indexOf(c.schedules, found[1]))],
             delayRefresh)
    ELSE c

removeSchedule(c, input, delayRefresh) ==
    removeFound(c, findSchedule(c, input), delayRefresh)

\* the loop of removeSchedules over the identifiers from i on
RECURSIVE removeEach(_, _, _)
removeEach(c, inputs, i) ==
    IF i > Len(inputs)
    THEN c
    ELSE removeEach(removeSchedule(c, inputs[i], TRUE), inputs, i + 1)

removeSchedules(c, inputs, delayRefresh) ==
    refreshEventsUnless(IF inputs # Null
                        THEN removeEach(c, inputs[1], 1)
                        ELSE [c EXCEPT !.schedules = <<>>],
                        delayRefresh)

\* addSchedule finding nothing registered
isRegisteredNever(c, parsed) == FALSE

\* existing = this.findSchedule(parsed)
isRegistered(c, parsed) == findSchedule(c, PairRef(parsed)) # Null

\* addSchedule after the input is parsed
addParsed(c, parsed, allowDuplicates, delayRefresh) ==
    IF ~allowDuplicates /\ isRegistered(c, parsed)
    THEN c
    ELSE refreshEventsUnless([c EXCEPT !.schedules = Append(c.schedules, parsed)],
                             delayRefresh)

addSchedule(c, input, allowDuplicates, delayRefresh) ==
    addParsed(c, calendarSchedule(input), allowDuplicates, delayRefresh)

\* the loop of addSchedules over the inputs from i on
RECURSIVE addEach(_, _, _, _)
addEach(c, inputs, allowDuplicates, i) ==
    IF i > Len(inputs)
    THEN c
    ELSE addEach(addSchedule(c, inputs[i], allowDuplicates, TRUE), inputs,
                 allowDuplicates, i + 1)

addSchedules(c, inputs, allowDuplicates, delayRefresh) ==
    refreshEventsUnless(addEach(c, inputs, allowDuplicates, 1), delayRefresh)

\* the day refresh takes as Day.today(): Wednesday 2018-01-03, 10:00
Today == FirstDay * MILLIS_IN_DAY + 3 * MILLIS_IN_DAY + 600

\* a CalendarInput: each field is null (absent) or holds its value
CalendarInput(fill, minimumSize, repeatCovers, listTimes, eventsOutside, schedules) ==
    [fill |-> fill, minimumSize |-> minimumSize, repeatCovers |-> repeatCovers,
     listTimes |-> listTimes, eventsOutside |-> eventsOutside,
     schedules |-> schedules]

\* the five coalesced flags of withInput
withFlags(c, input) ==
    [c EXCEPT !.fill = coalesce(input.fill, c.fill),
              !.minimumSize = coalesce(input.minimumSize, c.minimumSize),
              !.repeatCovers = coalesce(input.repeatCovers, c.repeatCovers),
              !.listTimes = coalesce(input.listTimes, c.listTimes),
              !.eventsOutside = coalesce(input.eventsOutside, c.eventsOutside)]

\* if (fn.isArray(input.schedules)) { removeSchedules(); addSchedules(...) }
withSchedules(c, input, doRefresh) ==
    IF input.schedules # Null
    THEN addSchedules(removeSchedules(c, Null, FALSE), input.schedules[1], FALSE,
                      ~doRefresh)
    ELSE c

\* if (refresh) this.refresh()
refreshIf(c, doRefresh) == IF doRefresh THEN refresh(c, Today) ELSE c

withInput(c, input, doRefresh) ==
    refreshIf(withSchedules(withFlags(c, input), input, doRefresh), doRefresh)

\* new Calendar(start, end, type, size, moveStart, moveEnd, input)
\* the fields of a calendar before the constructor's withInput and refresh
NewFields(start, end, type, size, mover) ==
    [span |-> DaySpan(start, end), filled |-> DaySpan(start, end),
     length |-> 0, type |-> type, size |-> size, mover |-> mover,
     fill |-> FALSE, minimumSize |-> 0, repeatCovers |-> TRUE,
     listTimes |-> FALSE, eventsOutside |-> FALSE,
     selection |-> Null, days |-> <<>>, schedules |-> <<>>]

\* if (fn.isDefined(input)) this.withInput(input, false)
withInputIfDefined(c, input) ==
    IF input # Null THEN withInput(c, input[1], FALSE) ELSE c

NewCalendar(start, end, type, size, mover, input) ==
    refresh(withInputIfDefined(NewFields(start, end, type, size, mover), input),
            Today)

withMinimumSize(c, minimumSize) ==
    refresh([c EXCEPT !.minimumSize = minimumSize], Today)

withRepeatCovers(c, repeatCovers) ==
    refreshEvents([c EXCEPT !.repeatCovers = repeatCovers])

withListTimes(c, listTimes) == refreshEvents([c EXCEPT !.listTimes = listTimes])

withEventsOutside(c, eventsOutside) ==
    refreshEvents([c EXCEPT !.eventsOutside = eventsOutside])

\* select(start, end?): `end` is null when not given
select(c, start, end) ==
    refreshSelection(
        [c EXCEPT !.selection =
            Some(IF end # Null THEN DaySpan(start, end[1]) ELSE SpanPoint(start))])

unselect(c) == refreshSelection([c EXCEPT !.selection = Null])

move(c, jump) ==
    refresh([c EXCEPT !.span = DaySpan(moveStart(c.mover, c.span.start, jump),
                                       moveEnd(c.mover, c.span.end, jump))],
            Today)

\* the calendar handed as CalendarInput to its sub-calendars
InputOf(c) ==
    CalendarInput(Some(c.fill), Some(c.minimumSize), Some(c.repeatCovers),
                  Some(c.listTimes), Some(c.eventsOutside), Some(c.schedules))

\* the loop of split: the sub-calendars from the i-th on (i from 0)
RECURSIVE splitFrom(_, _, _, _, _)
splitFrom(c, by, i, start, end) ==
    IF i < c.size
    THEN <<NewCalendar(start, end, c.type, by, c.mover, Some(InputOf(c)))>>
            \o splitFrom(c, by, i + 1, moveStart(c.mover, start, by),
                         moveEnd(c.mover, end, by))
    ELSE <<>>

split(c, by) ==
    splitFrom(c, by, 0, c.span.start, moveEnd(c.mover, c.span.end, by - c.size))

\* Math.floor(n * focus), focus = 0.4999
FocusOffset(n) == (n * 4999) \div 10000

(***************************************************************************)
(* The static factories: each computes the arguments <<start, end, type,   *)
(* size, mover, input>> it hands to the constructor; Construct is its      *)
(* `return new Calendar(...)`.                                             *)
(***************************************************************************)
DaysEnd(start, n) == EndOfDay(relativeDays(start, n - 1))

WeeksEnd(start, n) == endOfWeek(relativeWeeks(start, n - 1))

MonthsEnd(start, n) == endOfMonth(relativeMonths(start, n - 1))

FactoryArgs(start, end, type, n, mover, input) == <<start, end, type, n, mover, input>>

\* Calendar.days(days, around, focus, input)
CalendarDays(n, around, input) ==
    FactoryArgs(relativeDays(StartOfDay(around), -FocusOffset(n)),
                DaysEnd(relativeDays(StartOfDay(around), -FocusOffset(n)), n),
                "day", n, "days", input)

\* Calendar.weeks(weeks, around, focus, input)
CalendarWeeks(n, around, input) ==
    FactoryArgs(relativeWeeks(startOfWeek(StartOfDay(around)), -FocusOffset(n)),
                WeeksEnd(relativeWeeks(startOfWeek(StartOfDay(around)), -FocusOffset(n)), n),
                "week", n, "weeks", input)

\* Calendar.months(months, around, focus, input); input defaults to {fill: true}
CalendarMonths(n, around, input) ==
    FactoryArgs(relativeMonths(startOfMonth(StartOfDay(around)), -FocusOffset(n)),
                MonthsEnd(relativeMonths(startOfMonth(StartOfDay(around)), -FocusOffset(n)), n),
                "month", n, "months", input)

Construct(args) == NewCalendar(args[1], args[2], args[3], args[4], args[5], args[6])

(***************************************************************************)
(* The calendars and arguments the model draws its inputs from.            *)
(***************************************************************************)
\* the pairs handed to the calendar: P3 shares its schedule with P1 and its
\* payload with P2
P1 == CalendarSchedule("P1", "S1", "E1")

P2 == CalendarSchedule("P2", "S2", "E2")

P3 == CalendarSchedule("P3", "S1", "E2")

NoInput == CalendarInput(Null, Null, Null, Null, Null, Null)

\* the factory calls a run begins with
Factories ==
    { CalendarDays(3, Today, Null),
      CalendarDays(2, Today, Some([NoInput EXCEPT !.schedules = Some(<<P1, P2>>)])),
      CalendarWeeks(1, Today, Some([NoInput EXCEPT !.schedules = Some(<<P2>>),
                                                   !.listTimes = Some(TRUE)])),
      CalendarMonths(1, Today, Some([NoInput EXCEPT !.fill = Some(TRUE)])) }

\* move(jump)
Jumps == {-1, 1}

\* select(start) and select(start, end)
Selections == { <<DayAt(2), Null>>, <<DayAt(3), Some(DayAt(9))>> }

\* addSchedule(pair, allowDuplicates)
Additions == { <<P1, FALSE>>, <<P2, FALSE>>, <<P3, FALSE>>, <<P1, TRUE>> }

\* removeSchedule(identifier)
Identifiers == { PairRef(P1), ScheduleRef("S1"), EventRef("E2") }

\* removeSchedules(identifiers): all of them, or the listed ones
Removals == { Null, Some(<<ScheduleRef("S1"), PairRef(P2)>>) }

\* withInput(input)
Inputs ==
    { [NoInput EXCEPT !.fill = Some(TRUE)],
      [NoInput EXCEPT !.fill = Some(FALSE), !.schedules = Some(<<P2, P1>>)] }

\* withMinimumSize(minimumSize)
MinimumSizes == {0, 9}

\* split(by)
SplitSizes == {1, 2}

(***************************************************************************)
(* The calendar's methods as actions: `cal` is the calendar, `call` the    *)
(* last method called with its arguments, `ret` what split returned,       *)
(* `steps` the number of calls so far.                                     *)
(***************************************************************************)
\* a method was called as m: c is the calendar it leaves, r what it returned
Called(m, c, r) ==
    /\ steps < MaxSteps
    /\ cal' = c
    /\ call' = m
    /\ ret' = r
    /\ steps' = steps + 1
    /\ UNCHANGED <<schedule, pc, day, days, iterated, out, tested, behindDays>>

Move(jump) == Called([op |-> "move", jump |-> jump], move(cal, jump), Null)

Select(start, end) ==
    Called([op |-> "select", start |-> start, end |-> end],
           select(cal, start, end), Null)

Unselect == Called([op |-> "unselect"], unselect(cal), Null)

AddSchedule(input, allowDuplicates) ==
    Called([op |-> "addSchedule", schedule |-> input,
            allowDuplicates |-> allowDuplicates],
           addSchedule(cal, input, allowDuplicates, FALSE), Null)

AddSchedules(inputs, allowDuplicates) ==
    Called([op |-> "addSchedules", schedules |-> inputs,
            allowDuplicates |-> allowDuplicates],
           addSchedules(cal, inputs, allowDuplicates, FALSE), Null)

RemoveSchedule(input) ==
    Called([op |-> "removeSchedule", schedule |-> input],
           removeSchedule(cal, input, FALSE), Null)

RemoveSchedules(inputs) ==
    Called([op |-> "removeSchedules", schedules |-> inputs],
           removeSchedules(cal, inputs, FALSE), Null)

WithInput(input) ==
    Called([op |-> "withInput", input |-> input], withInput(cal, input, TRUE), Null)

WithMinimumSize(minimumSize) ==
    Called([op |-> "withMinimumSize", minimumSize |-> minimumSize],
           withMinimumSize(cal, minimumSize), Null)

WithRepeatCovers(repeatCovers) ==
    Called([op |-> "withRepeatCovers", repeatCovers |-> repeatCovers],
           withRepeatCovers(cal, repeatCovers), Null)

WithListTimes(listTimes) ==
    Called([op |-> "withListTimes", listTimes |-> listTimes],
           withListTimes(cal, listTimes), Null)

WithEventsOutside(eventsOutside) ==
    Called([op |-> "withEventsOutside", eventsOutside |-> eventsOutside],
           withEventsOutside(cal, eventsOutside), Null)

Refresh == Called([op |-> "refresh"], refresh(cal, Today), Null)

Split(by) == Called([op |-> "split", by |-> by], cal, split(cal, by))

\* the calendar just constructed
InitCal ==
    /\ \E args \in Factories : cal = Construct(args)
    /\ steps = 0
    /\ schedule = ScheduleObjects["S1"]
    /\ InitCall

NextCal ==
    \/ \E jump \in Jumps : Move(jump)
    \/ \E s \in Selections : Select(s[1], s[2])
    \/ Unselect
    \/ \E a \in Additions : AddSchedule(a[1], a[2])
    \/ \E b \in BOOLEAN : AddSchedules(<<P3, P1>>, b)
    \/ \E x \in Identifiers : RemoveSchedule(x)
    \/ \E xs \in Removals : RemoveSchedules(xs)
    \/ \E input \in Inputs : WithInput(input)
    \/ \E m \in MinimumSizes : WithMinimumSize(m)
    \/ \E b \in BOOLEAN : WithRepeatCovers(b)
    \/ \E b \in BOOLEAN : WithListTimes(b)
    \/ \E b \in BOOLEAN : WithEventsOutside(b)
    \/ Refresh
    \/ \E by \in SplitSizes : Split(by)

SpecCal == InitCal /\ [][NextCal]_vars

(***************************************************************************)
(* The properties checked.                                                 *)
(***************************************************************************)
Components ==
    {"dayOfWeek", "dayOfMonth", "dayOfYear", "year", "month", "week",
     "weekOfYear", "weekspanOfYear", "fullWeekOfYear", "weekOfMonth",
     "weekspanOfMonth", "fullWeekOfMonth"}

\* the component of day t that the frequency check named c is about
ComponentOf(c, t) ==
    CASE c = "dayOfWeek"       -> dayOfWeek(t)
      [] c = "dayOfMonth"      -> dayOfMonth(t)
      [] c = "dayOfYear"       -> dayOfYear(t)
      [] c = "year"            -> year(t)
      [] c = "month"           -> month(t)
      [] c = "week"            -> week(t)
      [] c = "weekOfYear"      -> weekOfYear(t)
      [] c = "weekspanOfYear"  -> weekspanOfYear(t)
      [] c = "fullWeekOfYear"  -> fullWeekOfYear(t)
      [] c = "weekOfMonth"     -> weekOfMonth(t)
      [] c = "weekspanOfMonth" -> weekspanOfMonth(t)
      [] c = "fullWeekOfMonth" -> fullWeekOfMonth(t)

AllChecksPass(s, t) == \A c \in Components : FrequencyCheck(s[c], ComponentOf(c, t))

\* t lies in [start, end), an absent bound constraining nothing
InBounds(s, t) ==
    /\ \A i \in 1..Len(s.start) : s.start[i] <= t
    /\ \A i \in 1..Len(s.end) : t < s.end[i]

Excluded(s, t) == \E e \in s.exclude : e = dayIdentifier(t)

\* C1: matchesDay(D) is true exactly when D is not excluded, D lies in
\* [start, end) and all twelve frequency checks pass; it is false for every D
\* outside [start, end) and for every excluded D.
C1_MatchesDay ==
    call.op = "matchesDay" =>
        /\ ret = (~Excluded(schedule, call.day) /\ InBounds(schedule, call.day)
                    /\ AllChecksPass(schedule, call.day))
        /\ ~InBounds(schedule, call.day) => ret = FALSE
        /\ Excluded(schedule, call.day) => ret = FALSE

\* matchesDay has refused the day on which the schedule ends, a day that is
\* not excluded and passes a frequency check that is not Always
C1_Witness ==
    /\ call.op = "matchesDay"
    /\ schedule.end = Some(StartOfDay(call.day))
    /\ schedule.start # Null
    /\ schedule.dayOfWeek # Always
    /\ AllChecksPass(schedule, call.day)
    /\ ~Excluded(schedule, call.day)
    /\ ret = FALSE

\* the days a call of iterateDays may visit, in the order it visits them:
\* lookup days in its direction, from the starting day itself when includeDay
\* is set and from its neighbour otherwise
Walk(c) ==
    [i \in 1..c.lookup |->
        c.day + (IF c.next THEN 1 ELSE -1)
                  * (IF c.includeDay THEN i - 1 ELSE i) * MILLIS_IN_DAY]

\* the days of Walk(c) that match, in order
Matching(s, c) == SelectSeq(Walk(c), LAMBDA t : matchesDay(s, t))

NoResult(c) == IF c.onDay = "set" THEN Null ELSE <<>>

\* C2: iterateDays terminates and tests at most `lookup` days, whatever the
\* schedule and the arguments: while the loop runs every pass so far has
\* counted one tested day and `days` has not passed `lookup`, and a pass
\* either leaves the loop or counts one day more; when no day of the walk
\* matches, nextDay/prevDay return null and nextDays/prevDays an empty list.
C2_State ==
    call.op \in IterOps =>
        /\ tested <= call.lookup
        /\ pc = "iterateDays" => tested = days /\ days <= call.lookup
        /\ (pc = "done" /\ Matching(schedule, call) = <<>>) => ret = NoResult(call)

C2_Pass ==
    pc = "iterateDays" =>
        \/ pc' = "done"
        \/ pc' = "iterateDays" /\ days' = days + 1 /\ days' <= call.lookup

C2_BoundedIteration == []C2_State /\ [][C2_Pass]_vars

\* prevDay has walked its whole lookBack over a schedule that matches no day
\* and returned null
C2_Witness ==
    /\ call.op = "prevDay"
    /\ pc = "done"
    /\ call.lookup > 1
    /\ tested = call.lookup
    /\ out = <<>>
    /\ ret = Null

\* C3: iterateDays calls onDay at most `max` times, for every max >= 0, so
\* nextDays/prevDays return at most `max` days; and it calls onDay no more
\* once onDay has returned false.
C3_AtMostMax ==
    call.op \in IterOps =>
        /\ Len(out) <= call.max
        /\ call.onDay = "push" => Len(ret) <= call.max
        /\ OnDayReturnsFalse(call.onDay) => Len(out) <= 1

\* C4: without includeDay, nextDays returns exactly the first `max` matching
\* days after the starting day, in increasing order (fewer only when the
\* lookAhead holds fewer), and prevDays the mirror image.
C4_FirstMatches ==
    (pc = "done" /\ call.op \in {"nextDays", "prevDays"} /\ ~call.includeDay) =>
        LET all == Matching(schedule, call)
            n   == IF Len(all) < call.max THEN Len(all) ELSE call.max
        IN  /\ ret = SubSeq(all, 1, n)
            /\ \A i \in 1..(Len(ret) - 1) :
                 IF call.next THEN ret[i] < ret[i + 1] ELSE ret[i] > ret[i + 1]

\* a schedule without bounds, exclusions or frequency checks other than Always
Unconstrained(s) ==
    /\ s.start = Null
    /\ s.end = Null
    /\ s.exclude = {}
    /\ \A c \in Components : s[c] = Always

\* C5: without includeDay the starting day X is never reported, the first
\* day tested is X's neighbour, and on an unconstrained schedule a forward
\* iteration with max = 1 (and a lookAhead of at least one day) reports
\* exactly X + 1; with includeDay the first day tested is X itself, so
\* nextDay(X, true) = X whenever matchesDay(X).
C5_IncludeDay ==
    call.op \in IterOps =>
        /\ ~call.includeDay => \A i \in 1..Len(out) : out[i] # call.day
        /\ (~call.includeDay /\ tested = 1) =>
              day = Some(call.day + (IF call.next THEN 1 ELSE -1) * MILLIS_IN_DAY)
        /\ (~call.includeDay /\ pc = "done" /\ call.next /\ call.max = 1
              /\ call.lookup >= 1 /\ Unconstrained(schedule)) =>
              /\ out = <<call.day + MILLIS_IN_DAY>>
              /\ ret = (IF call.onDay = "set" THEN Some(call.day + MILLIS_IN_DAY)
                                              ELSE <<call.day + MILLIS_IN_DAY>>)
        /\ (call.includeDay /\ tested = 1) => day = Some(call.day)
        /\ (call.includeDay /\ pc = "done" /\ call.op = "nextDay"
              /\ call.lookup >= 1 /\ matchesDay(schedule, call.day)) =>
              ret = Some(call.day)

\* nextDay(X, true) has returned X on a schedule that constrains the day of
\* the week
C5_Witness ==
    /\ call.op = "nextDay"
    /\ pc = "done"
    /\ call.includeDay
    /\ schedule.dayOfWeek # Always
    /\ ret = Some(call.day)

\* the day i days before t, at t's time of day
DaysBefore(t, i) == t - i * MILLIS_IN_DAY

\* how far before t the formulas below look for the start of an occurrence
Reach(s) == s.durationInDays + 2

\* the matching days that lie at most durationInDays days before t, t included
Candidates(s, t) ==
    { DaysBefore(t, i) : i \in { j \in 0..s.durationInDays : matchesDay(s, DaysBefore(t, j)) } }

Earliest(S) == CHOOSE x \in S : \A y \in S : x <= y

Latest(S) == CHOOSE x \in S : \A y \in S : x >= y

\* C6 as stated: findStartingDay(day) returns the earliest matching day whose
\* span of durationInDays days covers `day`.
C6_Earliest ==
    call.op = "findStartingDay" =>
        LET c == Candidates(schedule, call.day)
        IN  ret = (IF c = {} THEN Null ELSE Some(Earliest(c)))

\* C6, amended: findStartingDay(day) returns the latest matching day among
\* day, day - 1, ..., day - durationInDays (the one nearest to `day`), and
\* null when none of them matches.
C6_Latest ==
    call.op = "findStartingDay" =>
        LET c == Candidates(schedule, call.day)
        IN  ret = (IF c = {} THEN Null ELSE Some(Latest(c)))

\* findStartingDay has chosen among several matching days, none of them the
\* day asked about
C6_Witness ==
    /\ call.op = "findStartingDay"
    /\ Cardinality(Candidates(schedule, call.day)) >= 2
    /\ ~matchesDay(schedule, call.day)
    /\ ret = Some(Latest(Candidates(schedule, call.day)))

\* an occurrence starting on day t0 reaches day t: one of its spans begins on
\* or before t's day and ends (exclusively) after the start of t's day, its
\* own first day always counting
SpanReaches(s, t0, t) ==
    \E i \in 1..Len(getSpansOn(s, t0, FALSE)) :
        LET span == getSpansOn(s, t0, FALSE)[i]
        IN  /\ DayNumber(span.start) <= DayNumber(t)
            /\ (span.end > StartOfDay(t) \/ DayNumber(span.start) = DayNumber(t))

\* C7 as stated: coversDay(D) iff some matching day S <= D with
\* D - S < durationInDays has a span that reaches D.
C7_StrictlyLess ==
    call.op = "coversDay" =>
        ret = (\E i \in 0..Reach(schedule) :
                 /\ i < schedule.durationInDays
                 /\ matchesDay(schedule, DaysBefore(call.day, i))
                 /\ SpanReaches(schedule, DaysBefore(call.day, i), call.day))

\* C7, amended: coversDay(D) iff some matching day S <= D with
\* D - S <= durationInDays has a span that reaches D.
C7_AtMost ==
    call.op = "coversDay" =>
        ret = (\E i \in 0..Reach(schedule) :
                 /\ i <= schedule.durationInDays
                 /\ matchesDay(schedule, DaysBefore(call.day, i))
                 /\ SpanReaches(schedule, DaysBefore(call.day, i), call.day))

\* coversDay has accepted a day that does not match, covered only by the
\* occurrence that started durationInDays days earlier
C7_Witness ==
    /\ call.op = "coversDay"
    /\ ret = TRUE
    /\ schedule.durationInDays >= 1
    /\ Candidates(schedule, call.day)
         = {DaysBefore(call.day, schedule.durationInDays)}

\* the number k of whole days a full-day schedule lasts, 0 when it is timed
\* or does not last a whole number of days
WholeDays(s) ==
    LET len == s.duration * DURATION_TO_MILLIS(s.durationUnit)
    IN  IF isFullDay(s) /\ len % MILLIS_IN_DAY = 0 THEN len \div MILLIS_IN_DAY ELSE 0

\* C8: for a full-day schedule lasting k >= 1 whole days, coversDay(D) holds
\* exactly for the k consecutive days beginning at each matching day, and
\* findStartingDay returns a matching day whose k days include D for each
\* covered D, and null for every other D.
C8_WholeDays ==
    LET k     == WholeDays(schedule)
        cover == \E i \in 0..(k - 1) : matchesDay(schedule, DaysBefore(call.day, i))
    IN  k >= 1 =>
          /\ call.op = "coversDay" => ret = cover
          /\ call.op = "findStartingDay" =>
               /\ (ret = Null) = ~cover
               /\ ret # Null =>
                    /\ matchesDay(schedule, ret[1])
                    /\ \E i \in 0..(k - 1) : ret[1] = DaysBefore(call.day, i)

\* findStartingDay of a Tuesday has returned the Monday before it, on a
\* full-day schedule of two days that matches Mondays
C8_Witness ==
    /\ call.op = "findStartingDay"
    /\ schedule.dayOfWeek = OneOf(<<1>>)
    /\ WholeDays(schedule) = 2
    /\ dayOfWeek(call.day) = 2
    /\ ret = Some(DaysBefore(call.day, 1))

\* C9 as stated: when E is excluded, every earlier matching day S whose
\* occurrence covers E is findStartingDay(E).
C9_AnyStart ==
    (call.op = "findStartingDay" /\ Excluded(schedule, call.day)) =>
        \A i \in 1..schedule.durationInDays :
            matchesDay(schedule, DaysBefore(call.day, i))
                => ret = Some(DaysBefore(call.day, i))

\* the matching days before t whose occurrence covers t
EarlierStarts(s, t) == Candidates(s, t) \ {t}

\* C9, amended: excluding a day E that is covered by occurrences starting on
\* earlier matching days leaves coversDay(E) true, with findStartingDay(E)
\* the latest of those days; and findStartingDay never returns an excluded
\* day, so an occurrence whose start is excluded covers nothing.
C9_OnlyStartDay ==
    /\ (call.op = "coversDay" /\ Excluded(schedule, call.day)
          /\ EarlierStarts(schedule, call.day) # {}) => ret = TRUE
    /\ (call.op = "findStartingDay" /\ Excluded(schedule, call.day)
          /\ EarlierStarts(schedule, call.day) # {}) =>
             ret = Some(Latest(EarlierStarts(schedule, call.day)))
    /\ (call.op = "findStartingDay" /\ ret # Null) => ~Excluded(schedule, ret[1])

\* findStartingDay of an excluded day has returned the day before it, whose
\* occurrence covers it
C9_Witness ==
    /\ call.op = "findStartingDay"
    /\ Excluded(schedule, call.day)
    /\ ret = Some(DaysBefore(call.day, 1))

\* C10: getSpansOn(D) returns one span per time of day, in the order of
\* `times`, each from D at that time to that instant plus the duration; for
\* a schedule without times, one span from the start of D to the start of D
\* plus the duration; and nothing when check is set and D does not match.
C10_SpansOn ==
    call.op = "getSpansOn" =>
        LET d0  == (call.day \div MILLIS_IN_DAY) * MILLIS_IN_DAY
            len == schedule.duration * DURATION_TO_MILLIS(schedule.durationUnit)
        IN  IF call.check /\ ~matchesDay(schedule, call.day)
            THEN ret = <<>>
            ELSE IF schedule.times = <<>>
                 THEN ret = <<[start |-> d0, end |-> d0 + len]>>
                 ELSE /\ Len(ret) = Len(schedule.times)
                      /\ \A i \in 1..Len(ret) :
                           ret[i] = [start |-> d0 + schedule.times[i],
                                     end |-> d0 + schedule.times[i] + len]

\* getSpansOn of a matching day, asked at 10:00 with check set, has returned
\* the one span from 09:00 to 11:00 of that day
C10_Witness ==
    /\ call.op = "getSpansOn"
    /\ call.check
    /\ TimeOfDay(call.day) = 600
    /\ schedule.times = <<540>>
    /\ schedule.duration = 120
    /\ schedule.durationUnit = "minutes"
    /\ ret = <<[start |-> StartOfDay(call.day) + 540, end |-> StartOfDay(call.day) + 660]>>

(***************************************************************************)
(* findStartingDay's loop and result.                                      *)
(***************************************************************************)
\* the day k days before t, at t's time of day
DayBack(t, k) == t - k * MILLIS_IN_DAY

FindStartingDayResult ==
    LET t == call.day
        d == schedule.durationInDays
    IN  /\ matchesDay(schedule, t) => ret = Some(t)
        /\ (~matchesDay(schedule, t) /\ ret # Null) =>
              /\ matchesDay(schedule, ret[1])
              /\ \E k \in 1..d : ret[1] = DayBack(t, k)
        /\ ret = Null <=> \A k \in 0..d : ~matchesDay(schedule, DayBack(t, k))
        /\ d = 0 => ret = (IF matchesDay(schedule, t) THEN Some(t) ELSE Null)

C19_State ==
    call.op = "findStartingDayLoop" =>
        /\ tested <= schedule.durationInDays + 1
        /\ Len(out) = tested
        /\ \A i \in 1..Len(out) : out[i] = DayBack(call.day, i - 1)
        /\ behindDays >= -1
        /\ pc = "done" => FindStartingDayResult

\* every pass ends the loop or brings `behind` nearer to its end
C19_Pass == pc = "findStartingDay" => (pc' = "done" \/ behindDays' < behindDays)

\* C19: findStartingDay ends after at most durationInDays + 1 tests of
\* matchesDay, on the days day, day - 1, ..., at most durationInDays days
\* back; it returns `day` when `day` matches, else a matching day S with
\* 1 <= day - S <= durationInDays, and null exactly when no day of
\* [day - durationInDays, day] matches; with durationInDays = 0 it is
\* matchesDay(day) ? day : null.
C19_FindStartingDay == []C19_State /\ [][C19_Pass]_vars

\* the loop went all the way back and found its match on the last day tested
C19_Witness ==
    /\ pc = "done"
    /\ call.op = "findStartingDayLoop"
    /\ schedule.durationInDays >= 1
    /\ tested = schedule.durationInDays + 1
    /\ ret # Null

(***************************************************************************)
(* getSpansOver.                                                           *)
(***************************************************************************)
\* the span [start, end) overlaps the calendar day of t, or begins on it
CoversDayOf(span, t) ==
    \/ sameDay(span.start, t)
    \/ span.start < StartOfDay(t) + MILLIS_IN_DAY /\ span.end > StartOfDay(t)

\* C20: every span returned by getSpansOver(day) covers `day`: for a timed
\* schedule on a day only reached by spill-over, only the spans that overlap
\* `day` are returned.
C20_SpansCoverDay ==
    (call.op = "getSpansOver" /\ ~isFullDay(schedule)) =>
        \A i \in 1..Len(ret) : CoversDayOf(ret[i], call.day)

(***************************************************************************)
(* The calendar's event ids.                                               *)
(***************************************************************************)
\* the cells whose event list refreshEvents rewrites
Rewritten == {i \in 1..Len(cal.days) : rewritesEvents(cal, cal.days[i])}

\* the registry entry an event's scheduleId names holds the event's schedule
\* and payload
RecoversEntry(e) ==
    /\ scheduleId(e) >= 0
    /\ scheduleId(e) < Len(cal.schedules)
    /\ cal.schedules[scheduleId(e) + 1].schedule = e.schedule
    /\ cal.schedules[scheduleId(e) + 1].event = e.event

\* the ids of the list `events`: entry by entry in registration order, and
\* counted from 0 within an entry
IdsInOrder(events) ==
    \A k \in 1..Len(events) :
        /\ RecoversEntry(events[k])
        /\ (events[k].fullDay \/ ~cal.listTimes) => events[k].id % MAX_EVENTS_PER_DAY = 0
        /\ IF k > 1 /\ scheduleId(events[k - 1]) = scheduleId(events[k])
           THEN events[k].id = events[k - 1].id + 1
           ELSE /\ events[k].id % MAX_EVENTS_PER_DAY = 0
                /\ k > 1 => scheduleId(events[k - 1]) < scheduleId(events[k])

\* C11: in every list eventsForDay returned for a cell, the id of an event is
\* scheduleIndex * MAX_EVENTS_PER_DAY + localIndex (the registration index of
\* its schedule, and the count from 0 of that schedule's events, 0 for a
\* full-day or collapsed event); the events come schedule by schedule in
\* registration order; the ids are strictly increasing, so distinct, and
\* scheduleId gives back the registration index (no schedule of the model
\* has more than MAX_EVENTS_PER_DAY times).
C11_EventIds ==
    \A i \in Rewritten :
        /\ IdsInOrder(cal.days[i].events)
        /\ \A k \in 2..Len(cal.days[i].events) :
              cal.days[i].events[k - 1].id < cal.days[i].events[k].id

\* a cell lists both times of a schedule registered second
C11_Witness ==
    \E i \in Rewritten :
        \E k \in 1..Len(cal.days[i].events) :
            /\ cal.days[i].events[k].id = MAX_EVENTS_PER_DAY + 1
            /\ Len(cal.days[i].events) >= 3

(***************************************************************************)
(* The calendar's cells.                                                   *)
(***************************************************************************)
\* the calls that run the whole refresh
Refreshing == {"move", "withInput", "withMinimumSize", "refresh"}

\* the calendar days a span touches, counted on the calendar
DaysTouched(span) == DayNumber(span.end) - DayNumber(span.start) + 1

\* the first instant of the Sunday at or before t
SundayBefore(t) ==
    CHOOSE u \in {StartOfDay(t) - k * MILLIS_IN_DAY : k \in 0..6} : dayOfWeek(u) = 0

\* the last instant of the Saturday at or after t
SaturdayAfter(t) ==
    CHOOSE u \in {StartOfDay(t) + (k + 1) * MILLIS_IN_DAY - 1 : k \in 0..6} :
        dayOfWeek(u) = 6

\* C12: after construction and after every call that refreshes, there are
\* exactly max(minimumSize, days of the filled span) cells, cell i (from 0)
\* holds the date filled.start + i days, and the filled span is the nominal
\* span when fill is false, and runs from the start of the week of
\* span.start to the end of the week of span.end when fill is true.
C12_Cells ==
    /\ Len(cal.days) = Max(cal.minimumSize, DaysTouched(cal.filled))
    /\ \A i \in 1..Len(cal.days) :
          cal.days[i].date = cal.filled.start + (i - 1) * MILLIS_IN_DAY
    /\ ~cal.fill => cal.filled = cal.span
    /\ cal.fill => /\ cal.filled.start = SundayBefore(cal.span.start)
                   /\ cal.filled.end = SaturdayAfter(cal.span.end)

\* the minimum size decides the number of cells of a calendar filled to
\* whole weeks
C12_Witness ==
    /\ call.op = "withMinimumSize"
    /\ cal.fill
    /\ cal.filled # cal.span
    /\ cal.minimumSize > DaysTouched(cal.filled)
    /\ Len(cal.days) = cal.minimumSize

\* the objects of the cells, in order
CellRefs(c) == [i \in 1..Len(c.days) |-> c.days[i].ref]

\* C13: refresh called again with the same reference date and nothing
\* changed in between leaves the same cells: every cell equal by value
\* (date, flags, events) and the same object as before.
C13_RefreshTwice ==
    call.op = "refresh" =>
        /\ refresh(cal, Today).days = cal.days
        /\ CellRefs(refresh(cal, Today)) = CellRefs(cal)
        /\ refresh(cal, Today) = cal

\* refresh ran on a calendar with events and with cells outside its span
C13_Witness ==
    /\ call.op = "refresh"
    /\ \E i \in 1..Len(cal.days) : cal.days[i].events # <<>>
    /\ \E i \in 1..Len(cal.days) : ~cal.days[i].inCalendar

\* cell i after the step is the object that was cell i before it
SameCell(i) == i <= Len(cal.days) /\ cal'.days[i].ref = cal.days[i].ref

\* position i existed before the step and held the date it is to hold after
DateUnchanged(i) ==
    /\ i <= Len(cal.days)
    /\ sameDay(cal.days[i].date, relativeDays(cal'.filled.start, i - 1))

\* cell i after the step is none of the objects of the cells before it
NewCell(i) == \A j \in 1..Len(cal.days) : cal'.days[i].ref # cal.days[j].ref

C14_Step ==
    call'.op \in Refreshing =>
        \A i \in 1..Len(cal'.days) :
            /\ SameCell(i) <=> DateUnchanged(i)
            /\ ~SameCell(i) => NewCell(i)

\* C14: across a rebuild caused by move, withMinimumSize or withInput (and
\* by refresh), the cell at position i afterwards is the same object as
\* before exactly when position i existed and its date is the new target
\* date of position i; every other position holds a newly created cell.
C14_CellIdentity == [][C14_Step]_vars

\* withMinimumSize kept the cells an earlier move had replaced, and made the
\* cells it added
C14_Witness ==
    /\ call.op = "withMinimumSize"
    /\ Len(cal.days) = cal.minimumSize
    /\ cal.days[1].ref = <<1, 1>>
    /\ cal.days[Len(cal.days)].ref = <<Len(cal.days), 0>>

(***************************************************************************)
(* The events of the cells.                                                *)
(***************************************************************************)
\* the cells the claim is about: those of the nominal span, or all of them
\* when eventsOutside is set
InSpan == {i \in 1..Len(cal.days) :
              cal.eventsOutside \/ SpanContains(cal.span, cal.days[i].date)}

\* C15: after any sequence of method calls that do not put the refresh off,
\* every cell of the nominal span (every cell when eventsOutside is set)
\* lists exactly the events eventsForDay(cell, listTimes, repeatCovers)
\* gives for the registry and the flags as they are now.
C15_NoStaleEvents ==
    \A i \in InSpan :
        cal.days[i].events =
            eventsForDay(cal, cal.days[i].date, cal.listTimes, cal.repeatCovers)

\* a schedule was removed and a cell of the span still lists events
C15_Witness ==
    /\ call.op = "removeSchedule"
    /\ Len(cal.schedules) = 1
    /\ \E i \in InSpan : cal.days[i].events # <<>>

(***************************************************************************)
(* The registry.                                                           *)
(***************************************************************************)
\* a registered entry is the pair `parsed`, or holds its schedule or its
\* payload
SharesPart(entry, parsed) ==
    \/ PairRef(entry) = PairRef(parsed)
    \/ entry.schedule = parsed.schedule
    \/ entry.event = parsed.event

\* one call of addSchedule: refused when allowDuplicates is false and a
\* registered entry shares a part with the new one, appended otherwise
C16_Step ==
    call'.op = "addSchedule" =>
        IF /\ ~call'.allowDuplicates
           /\ \E i \in 1..Len(cal.schedules) :
                  SharesPart(cal.schedules[i], call'.schedule)
        THEN cal'.schedules = cal.schedules
        ELSE cal'.schedules = Append(cal.schedules, call'.schedule)

\* C16: addSchedule with allowDuplicates = false leaves the registry as it is
\* when the pair, the schedule or the payload of the new registration is that
\* of a registered entry; with allowDuplicates = true the entry is always
\* appended.
C16_RejectsDuplicates == [][C16_Step]_vars

(***************************************************************************)
(* split.                                                                  *)
(***************************************************************************)
\* the sub-calendar is of `by` units and has the parent's type, flags and
\* registered schedules
InheritsFrom(sub, by) ==
    /\ sub.size = by
    /\ sub.type = cal.type
    /\ sub.fill = cal.fill
    /\ sub.minimumSize = cal.minimumSize
    /\ sub.repeatCovers = cal.repeatCovers
    /\ sub.listTimes = cal.listTimes
    /\ sub.eventsOutside = cal.eventsOutside
    /\ sub.schedules = cal.schedules

\* the sub-calendars follow one another without a gap or an overlap
Consecutive(subs) ==
    \A i \in 1..(Len(subs) - 1) : subs[i + 1].span.start = subs[i].span.end + 1

\* C17: split(by) returns exactly size/by calendars, consecutive and
\* non-overlapping, the first starting at the parent's start and the last
\* ending at the parent's end, each of size `by` with the parent's type,
\* configuration flags and registered schedules (stated where by divides
\* size).
C17_SplitPartitions ==
    (call.op = "split" /\ cal.size % call.by = 0) =>
        /\ Len(ret) = cal.size \div call.by
        /\ ret[1].span.start = cal.span.start
        /\ ret[Len(ret)].span.end = cal.span.end
        /\ Consecutive(ret)
        /\ \A i \in 1..Len(ret) : InheritsFrom(ret[i], call.by)

(***************************************************************************)
(* Calling a method a second time.                                         *)
(***************************************************************************)
\* the calendar c after the method of the call record m is called on it
Apply(c, m) ==
    CASE m.op = "move" -> move(c, m.jump)
      [] m.op = "select" -> select(c, m.start, m.end)
      [] m.op = "unselect" -> unselect(c)
      [] m.op = "addSchedule" -> addSchedule(c, m.schedule, m.allowDuplicates, FALSE)
      [] m.op = "addSchedules" -> addSchedules(c, m.schedules, m.allowDuplicates, FALSE)
      [] m.op = "removeSchedule" -> removeSchedule(c, m.schedule, FALSE)
      [] m.op = "removeSchedules" -> removeSchedules(c, m.schedules, FALSE)
      [] m.op = "withInput" -> withInput(c, m.input, TRUE)
      [] m.op = "withMinimumSize" -> withMinimumSize(c, m.minimumSize)
      [] m.op = "withRepeatCovers" -> withRepeatCovers(c, m.repeatCovers)
      [] m.op = "withListTimes" -> withListTimes(c, m.listTimes)
      [] m.op = "withEventsOutside" -> withEventsOutside(c, m.eventsOutside)
      [] m.op = "refresh" -> refresh(c, Today)
      [] OTHER -> c

\* the mutators the claim lists
ClaimedMutators ==
    {"move", "select", "addSchedule", "removeSchedule", "withInput",
     "withMinimumSize", "withRepeatCovers", "withListTimes", "withEventsOutside"}

\* every method of the model that changes the calendar
Mutators ==
    ClaimedMutators \cup {"unselect", "addSchedules", "removeSchedules", "refresh"}

\* the call appends whatever is registered already
Repeats == call.op \in {"addSchedule", "addSchedules"} /\ call.allowDuplicates

\* an identifier of the call still finds a registered entry after it
Rematches ==
    \/ /\ call.op = "removeSchedule"
       /\ findSchedule(cal, call.schedule) # Null
    \/ /\ call.op = "removeSchedules"
       /\ call.schedules # Null
       /\ \E k \in 1..Len(call.schedules[1]) :
              findSchedule(cal, call.schedules[1][k]) # Null

\* C18 as stated: every Calendar mutator (move, select, addSchedule,
\* removeSchedule and the config setters) called a second time with the same
\* arguments leaves the span, the registry, the configuration and the cells
\* as the first call left them.
C18_EveryMutatorIdempotent ==
    call.op \in ClaimedMutators => Apply(cal, call) = cal

\* C18, amended: a second call with the same arguments changes nothing for
\* every mutator but move, as long as the call does not allow duplicates
\* (addSchedule, addSchedules) and left no registered entry matching its
\* identifiers (removeSchedule, removeSchedules).
C18_Idempotent ==
    (call.op \in Mutators /\ call.op # "move" /\ ~Repeats /\ ~Rematches) =>
        Apply(cal, call) = cal

\* a pair was registered by addSchedule without allowDuplicates
C18_Witness ==
    /\ call.op = "addSchedule"
    /\ ~call.allowDuplicates
    /\ call.schedule = P3
    /\ Len(cal.schedules) = 3
    /\ cal.schedules[3] = P3

(***************************************************************************)
(* durationInDays and the reach of an occurrence.                          *)
(***************************************************************************)
\* the spans getFullSpan/getTimeSpan give for the start day t, in the order
\* of the times of day
SpansOf(s, t) ==
    IF isFullDay(s)
    THEN <<getFullSpan(s, t)>>
    ELSE [k \in 1..Len(s.times) |-> getTimeSpan(s, t, s.times[k])]

\* the number of the last day the span touches, its end taken as exclusive
LastDayTouched(span) ==
    IF span.end > span.start THEN DayNumber(span.end - 1) ELSE DayNumber(span.start)

\* the occurrence at the latest time of day, or the full-day occurrence
LatestSpan(s, t) == SpansOf(s, t)[Len(SpansOf(s, t))]

\* C21: for every start day S no span of getFullSpan/getTimeSpan touches a
\* day later than S + durationInDays (the end of the span exclusive), the
\* occurrence at the latest time of day (or the full-day occurrence) touches
\* day S + durationInDays, durationInDays is never negative, and it is 0 when
\* the latest occurrence ends at or before the following midnight.
C21_DurationInDaysExact ==
    /\ schedule.durationInDays >= 0
    /\ \A t \in Days :
        /\ \A k \in 1..Len(SpansOf(schedule, t)) :
               LastDayTouched(SpansOf(schedule, t)[k])
                   <= DayNumber(t) + schedule.durationInDays
        /\ LastDayTouched(LatestSpan(schedule, t))
               = DayNumber(t) + schedule.durationInDays
        /\ (LatestSpan(schedule, t).end <= StartOfDay(t) + MILLIS_IN_DAY
               => schedule.durationInDays = 0)

\* getSpansOn returned two occurrences of a day: the earlier ends on the day,
\* the later reaches the next day, durationInDays = 1
C21_Witness ==
    /\ call.op = "getSpansOn"
    /\ Len(ret) = 2
    /\ ret = SpansOf(schedule, call.day)
    /\ schedule.durationInDays = 1
    /\ LastDayTouched(ret[1]) = DayNumber(call.day)
    /\ LastDayTouched(ret[2]) = DayNumber(call.day) + 1

(***************************************************************************)
(* The events eventsForDay gives for one registry entry.                   *)
(***************************************************************************)
\* eventsForDay for the day of cell i under the calendar's own flags
EventsOfCell(i) ==
    eventsForDay(cal, cal.days[i].date, cal.listTimes, cal.repeatCovers)

\* the events among `events` of the registry entry of index k (from 0)
EventsOfEntry(events, k) == SelectSeq(events, LAMBDA e : scheduleId(e) = k)

\* the Schedule of the registry entry of index k (from 0)
ScheduleOfEntry(k) == ScheduleObjects[cal.schedules[k + 1].schedule]

\* the schedule s comes up on day d: covers it, or matches it
ComesUp(s, d) == IF cal.repeatCovers THEN coversDay(s, d) ELSE matchesDay(s, d)

\* listTimes = false: one event of the full span from findStartingDay(day)
\* when the schedule comes up, none otherwise
OneEventOfFullSpan(ev, k, s, d) ==
    IF ComesUp(s, d)
    THEN /\ Len(ev) = 1
         /\ ev[1].id = k * MAX_EVENTS_PER_DAY
         /\ findStartingDay(s, d) # Null
         /\ ev[1].time = getFullSpan(s, findStartingDay(s, d)[1])
    ELSE ev = <<>>

\* the part of C22 about listTimes = false, for every cell and entry
Collapsed ==
    ~cal.listTimes =>
        \A i \in 1..Len(cal.days) :
            LET events == EventsOfCell(i)
            IN  \A k \in 0..(Len(cal.schedules) - 1) :
                    OneEventOfFullSpan(EventsOfEntry(events, k), k,
                                       ScheduleOfEntry(k), cal.days[i].date)

\* C22 as stated: with listTimes = false eventsForDay emits one event per
\* registered schedule that comes up (id scheduleIndex * MAX_EVENTS_PER_DAY,
\* the full span from findStartingDay(day)) and none for the others; with
\* listTimes = true and covers = false it emits exactly one event per
\* time-of-day entry of each matching schedule.
C22_OnePerTimeOfDay ==
    /\ Collapsed
    /\ (cal.listTimes /\ ~cal.repeatCovers) =>
        \A i \in 1..Len(cal.days) : \A k \in 0..(Len(cal.schedules) - 1) :
            Len(EventsOfEntry(EventsOfCell(i), k)) =
                IF matchesDay(ScheduleOfEntry(k), cal.days[i].date)
                THEN Len(ScheduleOfEntry(k).times)
                ELSE 0

\* C22, amended: as stated for listTimes = false; with listTimes = true and
\* covers = false eventsForDay emits one event per time-of-day entry of each
\* matching schedule that has times, and one event (the full-day span) for
\* each matching schedule that has none.
C22_OnePerOccurrence ==
    /\ Collapsed
    /\ (cal.listTimes /\ ~cal.repeatCovers) =>
        \A i \in 1..Len(cal.days) : \A k \in 0..(Len(cal.schedules) - 1) :
            Len(EventsOfEntry(EventsOfCell(i), k)) =
                IF matchesDay(ScheduleOfEntry(k), cal.days[i].date)
                THEN IF isFullDay(ScheduleOfEntry(k))
                     THEN 1
                     ELSE Len(ScheduleOfEntry(k).times)
                ELSE 0

\* a cell lists, with listTimes = true and covers = false, one event of a
\* schedule without times and two of a schedule with two times of day
C22_Witness ==
    /\ cal.listTimes
    /\ ~cal.repeatCovers
    /\ \E i \in 1..Len(cal.days) : \E k, l \in 0..(Len(cal.schedules) - 1) :
        /\ cal.days[i].events = EventsOfCell(i)
        /\ isFullDay(ScheduleOfEntry(k))
        /\ Len(EventsOfEntry(cal.days[i].events, k)) = 1
        /\ Len(ScheduleOfEntry(l).times) = 2
        /\ Len(EventsOfEntry(cal.days[i].events, l)) = 2

(***************************************************************************)
(* The order of the registry.                                              *)
(***************************************************************************)
\* the positions of the registry whose pair, schedule or payload is x
PositionsOf(x) ==
    {i \in 1..Len(cal.schedules) :
        \/ x = PairRef(cal.schedules[i])
        \/ x = ScheduleRef(cal.schedules[i].schedule)
        \/ x = EventRef(cal.schedules[i].event)}

\* the registry without its entry at position m, the others in their order
Without(m) ==
    [j \in 1..(Len(cal.schedules) - 1) |->
        IF j < m THEN cal.schedules[j] ELSE cal.schedules[j + 1]]

\* one call: removeSchedule(x) takes out the first entry x identifies, or
\* leaves the calendar alone; addSchedule appends at the end or refuses
C23_Step ==
    /\ call'.op = "removeSchedule" =>
        IF PositionsOf(call'.schedule) = {}
        THEN cal' = cal
        ELSE cal'.schedules =
                Without(CHOOSE m \in PositionsOf(call'.schedule) :
                            \A n \in PositionsOf(call'.schedule) : m <= n)
    /\ call'.op = "addSchedule" =>
        \/ cal'.schedules = cal.schedules
        \/ cal'.schedules = Append(cal.schedules, call'.schedule)

\* C23: removeSchedule(x) removes exactly one registry entry, the first in
\* registration order whose pair, schedule or payload is x, and leaves the
\* others in their relative order; when no entry matches, the registry and
\* every cell's events are unchanged; addSchedule always appends at the end.
C23_RegistryOrder == [][C23_Step]_vars

\* removeSchedule(S1) took the first of two entries holding S1: the second
\* is still registered, behind the entry that stood between them
C23_Witness ==
    /\ call.op = "removeSchedule"
    /\ call.schedule = ScheduleRef("S1")
    /\ cal.schedules = <<P2, P3>>

(***************************************************************************)
(* The selection flags of the cells.                                       *)
(***************************************************************************)
\* the four selected flags of cell d are those of the selection, or all
\* false when nothing is selected
SelectedAsSelection(d) ==
    IF cal.selection # Null
    THEN /\ d.selectedDay = SpanMatchesDay(cal.selection[1], d.date)
         /\ d.selectedWeek = SpanMatchesWeek(cal.selection[1], d.date)
         /\ d.selectedMonth = SpanMatchesMonth(cal.selection[1], d.date)
         /\ d.selectedYear = SpanMatchesYear(cal.selection[1], d.date)
    ELSE ~d.selectedDay /\ ~d.selectedWeek /\ ~d.selectedMonth /\ ~d.selectedYear

C24_State == \A i \in 1..Len(cal.days) : SelectedAsSelection(cal.days[i])

\* select and unselect leave every cell's identity, date, inCalendar flag
\* and events as they were
C24_Step ==
    call'.op \in {"select", "unselect"} =>
        /\ Len(cal'.days) = Len(cal.days)
        /\ \A i \in 1..Len(cal.days) :
            /\ cal'.days[i].ref = cal.days[i].ref
            /\ cal'.days[i].date = cal.days[i].date
            /\ cal'.days[i].inCalendar = cal.days[i].inCalendar
            /\ cal'.days[i].events = cal.days[i].events

\* C24: after any sequence of select, unselect, move and other refreshing
\* mutators every cell of the grid, the cells a move has made included, has
\* its selected day/week/month/year flags equal to the selection span's
\* matchesDay/Week/Month/Year on it when a selection is active and all four
\* false when none is; select and unselect change no cell's identity, date,
\* inCalendar flag or events.
C24_SelectionFlags == []C24_State /\ [][C24_Step]_vars

\* a move under an active selection made a new cell that is a selected day
C24_Witness ==
    /\ call.op = "move"
    /\ cal.selection # Null
    /\ \E i \in 1..Len(cal.days) :
        /\ cal.days[i].ref[2] = 1
        /\ cal.days[i].selectedDay

(***************************************************************************)
(* The cells outside the span.                                             *)
(***************************************************************************)
\* C25: whenever eventsOutside is false, every cell outside the nominal span
\* (inCalendar = false: the padding of fill or minimumSize) has an empty
\* event list, after any sequence of mutators.
C25_PaddingEmpty ==
    ~cal.eventsOutside =>
        \A i \in 1..Len(cal.days) :
            ~cal.days[i].inCalendar => cal.days[i].events = <<>>

=============================================================================
